---- MODULE Spec2Model ----
(***************************************************************************)
(* State-machine model of looking_glass_tools/looking_glass_management.py: *)
(* the ServiceManager / HoloPlayService pair, the DeviceManager with its   *)
(* device types, and the LookingGlassQuilt lightfield format.              *)
(*                                                                         *)
(* Service instances live in a heap indexed by object identity.  A device  *)
(* instance is identified by its place in DeviceManager.__dev_list; a      *)
(* reference to an instance that has left the list holds the instance.     *)
(* Every method is an operator from the state it is called in (and what    *)
(* the driver answers) to the state it leaves, the exception it raises and *)
(* the requests it sends; every action is one public call.                 *)
(***************************************************************************)
EXTENDS Integers, Sequences, FiniteSets, TLC

\* ------------------------------------------------------------------ bounds
MaxServices == 2
MaxDevices == 2
MaxCreated == 3
MaxReport == 2
MaxQuilts == 2
MaxFormats == 6
MaxElements == 64

\* ------------------------------------------------------------- vocabulary
\* Python's None, as an object reference (object identities are 1, 2, ...)
None == 0
\* __send_message returned None (no socket) or raised before returning
NoResponse == [kind |-> "none"]
NoError == "ok"

ServiceTypes == {"holoplayservice"}
ServiceTypeArgs == ServiceTypes \cup {"nosuchservice"}
Versions == {"1.2.0"}

DeviceTypes == {"standard", "portrait"}
DeviceTypeArgs == DeviceTypes \cup {"nosuchdevice"}
Serials == {"LKG-A", "LKG-B", "LKG-X"}
DeviceStates == {"ok", "busy"}

VARIABLES
    svc,                 \* heap of HoloPlayService instances
    svc_next,            \* number of HoloPlayService instances constructed so far
    service_list,        \* ServiceManager.__service_list
    svc_active,          \* ServiceManager.__active
    svc_service_active,  \* ServiceManager.__service_active ("unset" until assigned)
    dev_list,            \* DeviceManager.__dev_list: the device instances, in order
    dev_active,          \* DeviceManager.__dev_active: a reference to an instance
    ids_given,           \* history: every id a device instance was constructed with
    dev_count,           \* DeviceManager.__dev_count
    dev_service,         \* DeviceManager.__dev_service
    formats,             \* LookingGlassQuilt.formats.__dict
    metadata,            \* BaseLightfieldImageFormat.__metadata
    quilts,              \* the LookingGlassQuilt instances constructed so far
    channel,             \* per service: the requests outstanding on its socket
    caller,              \* where the program's thread is: idle, or blocked in a recv
    calibration          \* the calibration dict of the reply get_devices() is working on

svcVars == <<svc, svc_next, service_list, svc_active, svc_service_active>>
devVars == <<dev_list, dev_active, ids_given, dev_count, dev_service>>
quiltVars == <<formats, metadata, quilts>>
chanVars == <<channel, caller>>
vars == <<svc, svc_next, service_list, svc_active, svc_service_active,
          dev_list, dev_active, ids_given, dev_count, dev_service,
          formats, metadata, quilts, channel, caller, calibration>>

\* ------------------------------------------------------- driver (external)
\* What the driver process answers to one request: a reply carrying an error
\* code, a version string and a device report, or nothing before the receive
\* timeout elapses.
Timeout == [kind |-> "timeout"]
InfoReply(e, v) == [kind |-> "reply", error |-> e, version |-> v, devices |-> <<>>]
InfoReplies == {Timeout} \cup {InfoReply(e, v) : e \in {0, 1}, v \in Versions}
DialOutcomes == {"connected", "refused"}

\* The program's one thread outside every method; raised is the exception
\* its last call ended with
Returned(exc) == [at |-> "idle", service |-> 0, method |-> "", raised |-> exc]

\* ------------------------------------------------------- HoloPlayService
\* A heap cell holding no service instance
NoService == [socket |-> FALSE, dialer |-> FALSE, version |-> ""]

\* The outcome of a method: the instance afterwards, the requests sent, the
\* exception raised (NoError when none) and the returned value.
Outcome(s, sent, exc, ret) == [s |-> s, sent |-> sent, exc |-> exc, ret |-> ret]

is_socket(s) == s.socket
is_connected(s) == s.socket /\ s.dialer
is_ready(s) == is_connected(s)

send_message(s, cmd, reply) ==
    IF is_socket(s)
    THEN IF reply.kind = "timeout"
         THEN Outcome(s, <<cmd>>, "Timeout", NoResponse)
         ELSE Outcome(s, <<cmd>>, NoError, reply)
    ELSE Outcome(s, <<>>, NoError, NoResponse)

\* A plausible slip: the reply's version returned without being stored
get_version_uncached(s, reply) ==
    IF is_connected(s)
    THEN LET r == send_message(s, "info", reply)
         IN  IF r.exc # NoError THEN r
             ELSE IF r.ret.kind = "reply" /\ r.ret.error = 0
                  THEN Outcome(s, r.sent, NoError, r.ret.version)
                  ELSE Outcome(s, r.sent, NoError, s.version)
    ELSE Outcome(s, <<>>, NoError, s.version)

get_version(s, reply) ==
    IF is_connected(s)
    THEN LET r == send_message(s, "info", reply)
         IN  IF r.exc # NoError THEN r
             ELSE IF r.ret.kind = "reply" /\ r.ret.error = 0
                  THEN Outcome([s EXCEPT !.version = r.ret.version], r.sent, NoError, r.ret.version)
                  ELSE Outcome(s, r.sent, NoError, s.version)
    ELSE Outcome(s, <<>>, NoError, s.version)

close(s) ==
    IF is_socket(s)
    THEN [s EXCEPT !.socket = FALSE, !.dialer = FALSE, !.version = ""]
    ELSE s

disconnect(s) ==
    IF is_connected(s) THEN [s EXCEPT !.dialer = FALSE] ELSE s

\* A plausible slip: the teardown disconnects and leaves the socket open
del_unclosed(s) ==
    IF is_connected(s) THEN disconnect(s) ELSE s

del(s) ==
    IF is_connected(s) THEN close(disconnect(s)) ELSE s

\* A plausible slip: the refusal of the dial not handled, the dialer kept
connect_unrefused(s, dial, reply) ==
    IF ~s.dialer
    THEN IF ~s.socket
         THEN Outcome(s, <<>>, "AttributeError", FALSE)
         ELSE LET r == get_version([s EXCEPT !.dialer = TRUE], reply)
              IN  Outcome(r.s, r.sent, r.exc, r.exc = NoError)
    ELSE Outcome(s, <<>>, NoError, TRUE)

connect(s, dial, reply) ==
    IF ~s.dialer
    THEN IF ~s.socket
         THEN \* self.__socket is None: None has no attribute 'dial'
              Outcome(s, <<>>, "AttributeError", FALSE)
         ELSE IF dial = "connected"
         THEN LET r == get_version([s EXCEPT !.dialer = TRUE], reply)
              IN  Outcome(r.s, r.sent, r.exc, r.exc = NoError)
         ELSE Outcome(close(s), <<>>, NoError, FALSE)
    ELSE Outcome(s, <<>>, NoError, TRUE)

HoloPlayService_init(dial, reply) ==
    LET s == [socket |-> TRUE, dialer |-> FALSE, version |-> ""]
    IN  IF is_socket(s) THEN connect(s, dial, reply) ELSE Outcome(s, <<>>, NoError, FALSE)

\* -------------------------------------------------------- ServiceManager
InList(x, list) == \E i \in 1..Len(list) : list[i] = x

\* list.remove(x): the list without the first occurrence of x
ListRemove(list, x) ==
    LET i == CHOOSE k \in 1..Len(list) : list[k] = x /\ \A j \in 1..(k - 1) : list[j] # x
    IN  SubSeq(list, 1, i - 1) \o SubSeq(list, i + 1, Len(list))

\* The service registry as a value, so that a method's steps can be chained:
\* the instances, their number, __service_list, __active, __service_active.
Services ==
    [svc |-> svc, next |-> svc_next, list |-> service_list, active |-> svc_active,
     service_active |-> svc_service_active]

\* What a method did: the registry afterwards, the exception raised (NoError
\* when none), the instance or value returned, the requests sent
Done(S, exc, obj, sent) == [S |-> S, exc |-> exc, obj |-> obj, sent |-> sent]

ServiceManager_get_active(S) == S.active

\* "not get_active() or (get_active() and not get_active().is_ready())"
PromoteService(S) ==
    ServiceManager_get_active(S) = None \/ ~is_ready(S.svc[ServiceManager_get_active(S)])

ServiceManager_set_active(S, service) ==
    IF InList(service, S.list)
    THEN Done([S EXCEPT !.active = service], NoError, service, <<>>)
    ELSE Done(S, "ValueError", None, <<>>)

ServiceManager_add(S, service_type, dial, reply1, reply2) ==
    IF service_type \notin ServiceTypes
    THEN Done(S, "ValueError", None, <<>>)
    ELSE LET made == HoloPlayService_init(dial, reply1)
             id == S.next + 1
         IN  IF made.exc # NoError
             THEN \* the constructor raised: the instance is dropped unregistered
                  Done(S, made.exc, None, made.sent)
             ELSE LET appended == [S EXCEPT !.svc[id] = made.s, !.next = id,
                                            !.list = Append(S.list, id)]
                      promoted == IF PromoteService(appended)
                                  THEN ServiceManager_set_active(appended, id).S
                                  ELSE appended
                      \* print("Added service '%s' ..." % service) asks for the version
                      shown == get_version(made.s, reply2)
                  IN  Done([promoted EXCEPT !.svc[id] = shown.s], shown.exc, id,
                           made.sent \o shown.sent)

ServiceManager_reset_active(S) == [S EXCEPT !.service_active = "None"]

ServiceManager_remove(S, service, reply) ==
    IF InList(service, S.list)
    THEN \* print("Removing service '%s' ..." % service) asks for the version
         LET shown == get_version(S.svc[service], reply)
         IN  IF shown.exc # NoError
             THEN Done(S, shown.exc, None, shown.sent)
             ELSE LET asked == [S EXCEPT !.svc[service] = shown.s]
                      cleared == IF ServiceManager_get_active(asked) = service
                                 THEN ServiceManager_reset_active(asked)
                                 ELSE asked
                  IN  Done([cleared EXCEPT !.list = ListRemove(cleared.list, service)],
                           NoError, service, shown.sent)
    ELSE Done(S, NoError, None, <<>>)

\* get_devices() returned None: not ready, an error reply, or no device "ok"
NoDevices == [kind |-> "none", devices |-> <<>>]

calculate_derived(configuration) == [configuration EXCEPT !.derived = TRUE]

\* A plausible slip: the subpixel indices the wrong way round
calculate_derived_values_flipped(configuration) ==
    LET pitch == [num |-> (0 - configuration["screenW"]) * configuration["pitch"]
                              * (IF configuration["slope"] < 0 THEN 0 - configuration["slope"]
                                 ELSE configuration["slope"]),
                  den |-> configuration["DPI"],
                  root |-> 1 + configuration["slope"] * configuration["slope"]]
    IN  [key \in DOMAIN configuration \cup {"tilt", "pitch", "subp", "ri", "bi", "fringe"} |->
            CASE key = "tilt" -> <<configuration["screenH"],
                                   configuration["screenW"] * configuration["slope"]>>
              [] key = "pitch" -> pitch
              [] key = "subp" -> [pitch EXCEPT !.den = @ * 3 * configuration["screenW"]]
              [] key = "ri" -> IF configuration["flipSubp"] # 0 THEN 0 ELSE 2
              [] key = "bi" -> IF configuration["flipSubp"] # 0 THEN 2 ELSE 0
              [] key = "fringe" -> 0
              [] OTHER -> configuration[key]]

\* The values __calculate_derived writes into the calibration dict, which
\* calculate_derived above records as one flag.  A quotient a / b is kept as
\* <<a, b>>; sin(atan(|slope|)) is |slope| / sqrt(1 + slope^2), so the new
\* pitch num / (den * sqrt(root)) is kept as its three integers.
calculate_derived_values(configuration) ==
    LET pitch == [num |-> (0 - configuration["screenW"]) * configuration["pitch"]
                              * (IF configuration["slope"] < 0 THEN 0 - configuration["slope"]
                                 ELSE configuration["slope"]),
                  den |-> configuration["DPI"],
                  root |-> 1 + configuration["slope"] * configuration["slope"]]
    IN  [key \in DOMAIN configuration \cup {"tilt", "pitch", "subp", "ri", "bi", "fringe"} |->
            CASE key = "tilt" -> <<configuration["screenH"],
                                   configuration["screenW"] * configuration["slope"]>>
              [] key = "pitch" -> pitch
              [] key = "subp" -> [pitch EXCEPT !.den = @ * 3 * configuration["screenW"]]
              [] key = "ri" -> IF configuration["flipSubp"] # 0 THEN 2 ELSE 0
              [] key = "bi" -> IF configuration["flipSubp"] # 0 THEN 0 ELSE 2
              [] key = "fringe" -> 0
              [] OTHER -> configuration[key]]

\* A plausible slip: the report returned without the state filter
get_devices_unfiltered(s, reply) ==
    IF is_ready(s)
    THEN LET r == send_message(s, "info", reply)
         IN  IF r.exc # NoError THEN Outcome(s, r.sent, r.exc, NoDevices)
             ELSE IF r.ret.kind = "reply" /\ r.ret.error = 0 /\ Len(r.ret.devices) > 0
                  THEN Outcome(s, r.sent, NoError,
                               [kind |-> "list",
                                devices |-> [i \in 1..Len(r.ret.devices) |->
                                    IF i = 1 THEN calculate_derived(r.ret.devices[i])
                                             ELSE r.ret.devices[i]]])
                  ELSE Outcome(s, r.sent, NoError, NoDevices)
    ELSE Outcome(s, <<>>, NoError, NoDevices)

get_devices(s, reply) ==
    IF is_ready(s)
    THEN LET r == send_message(s, "info", reply)
         IN  IF r.exc # NoError THEN Outcome(s, r.sent, r.exc, NoDevices)
             ELSE IF r.ret.kind = "reply" /\ r.ret.error = 0
                  THEN LET devices == SelectSeq(r.ret.devices, LAMBDA d : d.state = "ok")
                       IN  IF Len(devices) > 0
                           THEN \* the loop returns inside its first iteration
                                Outcome(s, r.sent, NoError,
                                        [kind |-> "list",
                                         devices |-> [i \in 1..Len(devices) |->
                                             IF i = 1 THEN calculate_derived(devices[i])
                                                      ELSE devices[i]]])
                           ELSE Outcome(s, r.sent, NoError, NoDevices)
                  ELSE Outcome(s, r.sent, NoError, NoDevices)
    ELSE Outcome(s, <<>>, NoError, NoDevices)

\* What lightfield.decode() gave display(): an exception, or an object of a
\* type (io.BytesIO from the built-in decoder, anything from a custom one)
Decoded(exc, type) == [exc |-> exc, type |-> type]
Decodings == {Decoded(NoError, "BytesIO"), Decoded(NoError, "ndarray"),
              Decoded("TypeError", "")}

\* service.display(device, lightfield): the reply to the show request is
\* dropped.  The print before the request and the text of the TypeError
\* format `self`, and __str__ calls get_version(): `info` is the driver's
\* answer to that info request, `reply` its answer to the show request.
display(s, decoded, info, reply) ==
    IF is_ready(s)
    THEN IF decoded.exc # NoError THEN Outcome(s, <<>>, decoded.exc, FALSE)
         ELSE LET named == get_version(s, info)
              IN  IF named.exc # NoError THEN Outcome(named.s, named.sent, named.exc, FALSE)
                  ELSE IF decoded.type = "BytesIO"
                  THEN LET r == send_message(named.s, "show", reply)
                       IN  IF r.exc # NoError
                           THEN Outcome(named.s, named.sent \o r.sent, r.exc, FALSE)
                           ELSE Outcome(named.s, named.sent \o r.sent, NoError, TRUE)
                  ELSE Outcome(named.s, named.sent, "TypeError", FALSE)
    ELSE Outcome(s, <<>>, "RuntimeError", FALSE)

\* service.clear(device): the response [length, content] is a non-empty list,
\* true whatever error code its content holds
clear(s, reply) ==
    IF is_ready(s)
    THEN LET r == send_message(s, "hide", reply)
         IN  IF r.exc # NoError THEN Outcome(s, r.sent, r.exc, FALSE)
             ELSE IF r.ret # NoResponse THEN Outcome(s, r.sent, NoError, TRUE)
             ELSE Outcome(s, r.sent, "RuntimeError", FALSE)
    ELSE Outcome(s, <<>>, "RuntimeError", FALSE)

\* ------------------------------------------------- driver reports (external)
\* A dict has no such key
KeyMissing == "<no such key>"

\* The hardware a serial number belongs to; LKG-X is hardware this module has
\* no device type for.
HardwareOf(serial) ==
    CASE serial = "LKG-A" -> "standard"
      [] serial = "LKG-B" -> "portrait"
      [] OTHER -> "lkg_unknown"

\* One device of the driver's reply: `serial` is ['calibration']['serial'],
\* `top_serial` the top-level ['serial'] (no report has one), `derived` and
\* `aspect` say whether the calibration block carries the derived fields and
\* the 'aspect' entry.
ReportedDevice(serial, state) ==
    [serial |-> serial, top_serial |-> KeyMissing, hardwareVersion |-> HardwareOf(serial),
     state |-> state, derived |-> FALSE, aspect |-> FALSE]

ReportedDevices ==
    {ReportedDevice(serial, state) : serial \in Serials, state \in DeviceStates}

RECURSIVE SeqsUpTo(_, _)
SeqsUpTo(S, n) ==
    IF n = 0 THEN {<<>>}
    ELSE LET shorter == SeqsUpTo(S, n - 1)
         IN  shorter \cup {Append(q, x) : q \in {r \in shorter : Len(r) = n - 1}, x \in S}

\* The driver reports a device once: the serials of a report are different
Reports ==
    {r \in SeqsUpTo(ReportedDevices, MaxReport) :
        \A i \in 1..Len(r), j \in 1..Len(r) : r[i].serial = r[j].serial => i = j}

DeviceReply(e, v, report) == [kind |-> "reply", error |-> e, version |-> v, devices |-> report]

\* An error reply carries no report
DeviceReplies ==
    {Timeout} \cup {DeviceReply(1, v, <<>>) : v \in Versions}
              \cup {DeviceReply(0, v, report) : v \in Versions, report \in Reports}

\* ----------------------------------------------------------- device types
emulated_configuration(type) ==
    [serial |-> IF type = "standard" THEN "LKG-1-DUMMY" ELSE "LKG-5-DUMMY",
     top_serial |-> KeyMissing, hardwareVersion |-> type,
     state |-> "ok", derived |-> FALSE, aspect |-> FALSE]

\* No device instance
NoDevice ==
    [id |-> -1, type |-> "", emulated |-> FALSE, connected |-> FALSE,
     configuration |-> emulated_configuration(""), service |-> None, lightfield |-> None]

\* BaseDeviceType.__init__ followed by the subclass __init__ (both device
\* types add the 'aspect' entry to the calibration block)
DeviceType_init(type, count, service, configuration, given) ==
    IF given
    THEN [id |-> count, type |-> type, emulated |-> FALSE, connected |-> TRUE,
          configuration |-> [configuration EXCEPT !.aspect = TRUE],
          service |-> service, lightfield |-> None]
    ELSE [id |-> count, type |-> type, emulated |-> TRUE, connected |-> FALSE,
          configuration |-> [emulated_configuration(type) EXCEPT !.aspect = TRUE],
          service |-> None, lightfield |-> None]

\* The serial property; for an emulated device it reads the top-level key
serial(d) == IF d.emulated THEN d.configuration.top_serial ELSE d.configuration.serial

\* Lightfield objects a caller holds: two LookingGlassQuilt instances and an
\* object of a type no device lists in its formats
Lightfields == {1, 2, 3}
TypeOf(lightfield) == IF lightfield = 3 THEN "ndarray" ELSE "LookingGlassQuilt"

\* The class attribute `formats` of both device types
DeviceFormats == {"LookingGlassQuilt"}

\* A plausible slip: the format test left out of display()
Device_display_unchecked(d, lightfield, aspect, decoded, info, reply) ==
    IF d.service # None
    THEN IF ~aspect /\ ~d.configuration.aspect
         THEN Outcome(d, <<>>, "KeyError", FALSE)
         ELSE LET named == get_version(svc[d.service], info)
              IN  IF named.exc # NoError THEN Outcome(d, named.sent, named.exc, FALSE)
                  ELSE LET r == display(named.s, decoded, info, reply)
                       IN  IF r.exc # NoError
                           THEN Outcome(d, named.sent \o r.sent, r.exc, FALSE)
                           ELSE Outcome(IF r.ret THEN [d EXCEPT !.lightfield = lightfield]
                                        ELSE d,
                                        named.sent \o r.sent, NoError, TRUE)
    ELSE Outcome(d, <<>>, "RuntimeError", FALSE)

\* device.display(lightfield, aspect) of either device type: `aspect` says
\* whether the caller gave one, `decoded` is what lightfield.decode() gives,
\* `reply` the driver's answer to the show request.  The print before the
\* call of service.display formats the service, whose __str__ calls
\* get_version(): `info` is the driver's answer to the info requests of the
\* call.  Yields the device afterwards.
Device_display(d, lightfield, aspect, decoded, info, reply) ==
    IF TypeOf(lightfield) \in DeviceFormats
    THEN IF d.service # None
         THEN IF ~aspect /\ ~d.configuration.aspect
              THEN Outcome(d, <<>>, "KeyError", FALSE)
              ELSE LET named == get_version(svc[d.service], info)
                   IN  IF named.exc # NoError THEN Outcome(d, named.sent, named.exc, FALSE)
                       ELSE LET r == display(named.s, decoded, info, reply)
                            IN  IF r.exc # NoError
                                THEN Outcome(d, named.sent \o r.sent, r.exc, FALSE)
                                ELSE Outcome(IF r.ret THEN [d EXCEPT !.lightfield = lightfield]
                                             ELSE d,
                                             named.sent \o r.sent, NoError, TRUE)
         ELSE Outcome(d, <<>>, "RuntimeError", FALSE)
    ELSE Outcome(d, <<>>, "TypeError", FALSE)

\* device.clear(): the 8.9 inch type raises without a service and returns
\* True otherwise; the portrait type returns True after a hide request that
\* was answered and None in every other case ("RuntimeError" is built there,
\* not raised).  ret is FALSE where the method returns None or raises.
Device_clear(d, reply) ==
    IF d.type = "standard"
    THEN IF d.service # None
         THEN IF d.lightfield # None
              THEN LET r == clear(svc[d.service], reply)
                   IN  IF r.exc # NoError THEN Outcome(d, r.sent, r.exc, FALSE)
                       ELSE Outcome(IF r.ret THEN [d EXCEPT !.lightfield = None] ELSE d,
                                    r.sent, NoError, TRUE)
              ELSE Outcome(d, <<>>, NoError, TRUE)
         ELSE Outcome(d, <<>>, "RuntimeError", FALSE)
    ELSE IF d.service # None /\ d.lightfield # None
         THEN LET r == clear(svc[d.service], reply)
              IN  IF r.exc # NoError THEN Outcome(d, r.sent, r.exc, FALSE)
                  ELSE IF r.ret THEN Outcome([d EXCEPT !.lightfield = None], r.sent, NoError, TRUE)
                  ELSE Outcome(d, r.sent, NoError, FALSE)
         ELSE Outcome(d, <<>>, NoError, FALSE)

\* ---------------------------------------------------------- DeviceManager
\* A reference to a device instance: to nothing (None), to the instance at a
\* place of __dev_list, or to an instance that was removed from the list.
NoneRef == [ref |-> "none", index |-> 0, device |-> NoDevice]
Listed(i) == [ref |-> "list", index |-> i, device |-> NoDevice]
Removed(d) == [ref |-> "removed", index |-> 0, device |-> d]

\* The registry as a value, so that a method's steps can be chained:
\* __dev_list, __dev_active, __dev_count, the ids given so far, and whether
\* the method needed more instances than the model holds.
Registry ==
    [list |-> dev_list, active |-> dev_active, count |-> dev_count,
     ids |-> ids_given, over |-> FALSE]

Result(R, exc, obj) == [R |-> R, exc |-> exc, obj |-> obj]

\* The instance a reference points at
Deref(R, r) == IF r.ref = "list" THEN R.list[r.index] ELSE r.device

get_active(R) == R.active

\* DeviceManager.count() with its default arguments
count(R) == Len(R.list)

\* A plausible slip: the device count advanced before the type is looked up
add_device_counting(R, device_type, configuration, given, service) ==
    IF device_type \in DeviceTypes
    THEN IF Len(R.list) >= MaxDevices \/ R.count >= MaxCreated
         THEN Result([R EXCEPT !.over = TRUE], NoError, 0)
         ELSE LET device == DeviceType_init(device_type, count(R), service, configuration, given)
              IN  Result([R EXCEPT !.ids = R.ids \cup {device.id},
                                   !.count = R.count + 1,
                                   !.list = Append(R.list, device)],
                         NoError, Len(R.list) + 1)
    ELSE Result([R EXCEPT !.count = R.count + 1], "ValueError", 0)

add_device(R, device_type, configuration, given, service) ==
    IF device_type \in DeviceTypes
    THEN IF Len(R.list) >= MaxDevices \/ R.count >= MaxCreated
         THEN Result([R EXCEPT !.over = TRUE], NoError, 0)
         ELSE LET device == DeviceType_init(device_type, count(R), service, configuration, given)
              IN  Result([R EXCEPT !.ids = R.ids \cup {device.id},
                                   !.count = R.count + 1,
                                   !.list = Append(R.list, device)],
                         NoError, Len(R.list) + 1)
    ELSE Result(R, "ValueError", 0)

set_active(R, id) ==
    IF \E i \in 1..Len(R.list) : R.list[i].id = id
    THEN LET i == CHOOSE k \in 1..Len(R.list) :
                    /\ R.list[k].id = id
                    /\ \A j \in 1..(k - 1) : R.list[j].id # id
         IN  Result([R EXCEPT !.active = Listed(i)], NoError, i)
    ELSE Result(R, "ValueError", 0)

reset_active(R) == [R EXCEPT !.active = NoneRef]

\* "not get_active() or (get_active() and not get_active().connected)"
PromoteDevice(R) == get_active(R).ref = "none" \/ ~Deref(R, get_active(R)).connected

\* A plausible slip: every reported device added, none looked up by serial
RECURSIVE refresh_loop_appending(_, _, _, _)
refresh_loop_appending(devices, idx, R, service) ==
    IF idx > Len(devices) THEN Result(R, NoError, 0)
    ELSE LET device == devices[idx]
         IN  IF \E i \in 1..Len(R.list) : serial(R.list[i]) = KeyMissing
             THEN Result(R, "KeyError", 0)
             ELSE LET added == add_device(R, device.hardwareVersion, device, TRUE, service)
                  IN  IF added.exc # NoError \/ added.R.over THEN added
                      ELSE refresh_loop_appending(devices, idx + 1,
                               IF PromoteDevice(added.R)
                               THEN set_active(added.R, added.R.list[added.obj].id).R
                               ELSE added.R,
                               service)

RECURSIVE refresh_loop(_, _, _, _)
refresh_loop(devices, idx, R, service) ==
    IF idx > Len(devices) THEN Result(R, NoError, 0)
    ELSE LET device == devices[idx]
         IN  IF \E i \in 1..Len(R.list) : serial(R.list[i]) = KeyMissing
             THEN Result(R, "KeyError", 0)
             ELSE LET instance == {i \in 1..Len(R.list) : serial(R.list[i]) = device.serial}
                  IN  IF instance = {}
                      THEN LET added == add_device(R, device.hardwareVersion, device, TRUE, service)
                           IN  IF added.exc # NoError \/ added.R.over THEN added
                               ELSE refresh_loop(devices, idx + 1,
                                        IF PromoteDevice(added.R)
                                        THEN set_active(added.R, added.R.list[added.obj].id).R
                                        ELSE added.R,
                                        service)
                      ELSE LET first == CHOOSE i \in instance : \A j \in instance : i <= j
                           IN  refresh_loop(devices, idx + 1,
                                   [R EXCEPT !.list[first].configuration = device,
                                             !.list[first].connected = TRUE],
                                   service)

\* A plausible slip: the devices marked as disconnected before the service
\* is tested
refresh_marking(R, service, reply) ==
    LET marked == [R EXCEPT !.list = [i \in 1..Len(R.list) |->
                            IF ~R.list[i].emulated
                            THEN [R.list[i] EXCEPT !.connected = FALSE]
                            ELSE R.list[i]]]
    IN  IF service # None /\ is_ready(svc[service])
        THEN LET got == get_devices(svc[service], reply)
             IN  IF got.exc # NoError THEN Result(marked, got.exc, got)
                 ELSE IF got.ret.kind = "list"
                      THEN LET done == refresh_loop(got.ret.devices, 1, marked, service)
                           IN  Result(done.R, done.exc, got)
                      ELSE Result(marked, NoError, got)
        ELSE Result(marked, NoError, Outcome(NoService, <<>>, NoError, NoDevices))

\* refresh() on registry R bound to `service`; yields the registry, the
\* exception and (as obj) the outcome of its get_devices() call
refresh(R, service, reply) ==
    IF service # None /\ is_ready(svc[service])
    THEN LET marked == [R EXCEPT !.list = [i \in 1..Len(R.list) |->
                            IF ~R.list[i].emulated
                            THEN [R.list[i] EXCEPT !.connected = FALSE]
                            ELSE R.list[i]]]
             got == get_devices(svc[service], reply)
         IN  IF got.exc # NoError THEN Result(marked, got.exc, got)
             ELSE IF got.ret.kind = "list"
                  THEN LET done == refresh_loop(got.ret.devices, 1, marked, service)
                       IN  Result(done.R, done.exc, got)
                  ELSE Result(marked, NoError, got)
    ELSE Result(R, NoError, Outcome(NoService, <<>>, NoError, NoDevices))

\* exists(serial): the list comprehension reads the serial property of every
\* listed device before the membership test
exists(R, wanted) ==
    IF wanted # ""
    THEN IF \E i \in 1..Len(R.list) : serial(R.list[i]) = KeyMissing
         THEN Result(R, "KeyError", FALSE)
         ELSE Result(R, NoError, \E i \in 1..Len(R.list) : serial(R.list[i]) = wanted)
    ELSE Result(R, NoError, FALSE)

\* "get_active() == device.id" compares a device instance (or None) with a
\* number, which are never equal
ActiveIs(R, i) == FALSE

\* A plausible slip: an instance that is not in the list silently ignored
remove_device_silent(R, i) ==
    IF i \in 1..Len(R.list)
    THEN LET cleared == IF ActiveIs(R, i) THEN reset_active(R) ELSE R
             a == cleared.active
         IN  Result([cleared EXCEPT
                        !.list = SubSeq(R.list, 1, i - 1) \o SubSeq(R.list, i + 1, Len(R.list)),
                        !.active = IF a.ref = "list" /\ a.index = i THEN Removed(R.list[i])
                                   ELSE IF a.ref = "list" /\ a.index > i THEN Listed(a.index - 1)
                                   ELSE a],
                    NoError, i)
    ELSE Result(R, NoError, 0)

\* remove_device(device) for the instance at place i of the list (0: an
\* instance that is not in the list)
remove_device(R, i) ==
    IF i \in 1..Len(R.list)
    THEN LET cleared == IF ActiveIs(R, i) THEN reset_active(R) ELSE R
             a == cleared.active
         IN  Result([cleared EXCEPT
                        !.list = SubSeq(R.list, 1, i - 1) \o SubSeq(R.list, i + 1, Len(R.list)),
                        !.active = IF a.ref = "list" /\ a.index = i THEN Removed(R.list[i])
                                   ELSE IF a.ref = "list" /\ a.index > i THEN Listed(a.index - 1)
                                   ELSE a],
                    NoError, i)
    ELSE Result(R, "ValueError", 0)

\* DeviceManager.__subclasses__(): no class derives from DeviceManager
DeviceManager_subclasses == {}

\* The types add_emulated(filter) leaves out
Excluded(filter) == {t \in DeviceManager_subclasses : t \in filter}

\* A plausible slip: the "if not already emulated" test left out
already_emulated_never(R, type) == FALSE

\* "DeviceType.type in [d.type for d in cls.__dev_list if d.emulated == True]"
already_emulated(R, type) ==
    \E i \in 1..Len(R.list) : R.list[i].emulated /\ R.list[i].type = type

\* add_emulated(filter): `order` is the iteration order of the set of types
RECURSIVE add_emulated_loop(_, _, _)
add_emulated_loop(order, idx, R) ==
    IF idx > Len(order) THEN R
    ELSE IF R.over \/ already_emulated(R, order[idx])
         THEN add_emulated_loop(order, idx + 1, R)
         ELSE add_emulated_loop(order, idx + 1,
                  add_device(R, order[idx], NoDevice.configuration, FALSE, None).R)

add_emulated(R, filter, order) ==
    add_emulated_loop(SelectSeq(order, LAMBDA t : t \notin Excluded(filter)), 1, R)

\* ------------------------------------------------------------ numpy arrays
\* An ndarray is its shape and its elements in C order.  The elements are
\* tracked for arrays of at most MaxElements elements; a larger array is
\* its shape alone (data = <<>>).
RECURSIVE Size(_)
Size(shape) == IF shape = <<>> THEN 1 ELSE Head(shape) * Size(Tail(shape))

ndarray(shape, data) == [shape |-> shape, data |-> data]

Tracked(a) == Len(a.data) = Size(a.shape)

\* C-order position, from 0, of a multi-index in an array of a shape
RECURSIVE Ravel(_, _)
Ravel(index, shape) ==
    IF index = <<>> THEN 0
    ELSE Head(index) * Size(Tail(shape)) + Ravel(Tail(index), Tail(shape))

\* The multi-index of a C-order position
RECURSIVE Unravel(_, _)
Unravel(k, shape) ==
    IF shape = <<>> THEN <<>>
    ELSE <<k \div Size(Tail(shape))>> \o Unravel(k % Size(Tail(shape)), Tail(shape))

Swap(s, i, j) ==
    [k \in 1..Len(s) |-> IF k = i THEN s[j] ELSE IF k = j THEN s[i] ELSE s[k]]

\* ndarray.reshape(shape): the same elements in the same order, or ValueError
reshape(a, shape) ==
    IF Size(shape) # Size(a.shape)
    THEN [exc |-> "ValueError", arr |-> a]
    ELSE [exc |-> NoError, arr |-> ndarray(shape, a.data)]

\* ndarray.swapaxes(i, j), axes counted from 0
\* The strides of a C-order array, in elements: stride m is the number of
\* elements one step along axis m skips
Strides(shape) == [m \in 1..Len(shape) |-> Size(SubSeq(shape, m + 1, Len(shape)))]

\* Where the element at C-order position k of a view lies in the array it
\* views, `strides` being those of the view's shape and `source` the stride
\* in the viewed array of each axis of the view
RECURSIVE Offset(_, _, _, _)
Offset(k, strides, source, m) ==
    IF m > Len(strides) THEN 0
    ELSE (k \div strides[m]) * source[m] + Offset(k % strides[m], strides, source, m + 1)

swapaxes(a, i, j) ==
    LET shape == Swap(a.shape, i + 1, j + 1)
        strides == Strides(shape)
        source == Swap(Strides(a.shape), i + 1, j + 1)
        data == a.data
    IN  ndarray(shape, [k \in 1..Len(data) |-> data[Offset(k - 1, strides, source, 1) + 1]])

Min(a, b) == IF a < b THEN a ELSE b

\* quilt_np[0:height, 0:width, :]
crop(a, height, width) ==
    LET shape == <<Min(a.shape[1], height), Min(a.shape[2], width), a.shape[3]>>
    IN  IF shape = a.shape THEN a
        ELSE ndarray(shape,
                IF Tracked(a)
                THEN [k \in 1..Size(shape) |-> a.data[Ravel(Unravel(k - 1, shape), a.shape) + 1]]
                ELSE <<>>)

\* A list of n views of one shape, elements of all views in order; np.asarray
\* of the list
Views(n, shape, data) == [n |-> n, shape |-> shape, data |-> data]
NoViews == Views(0, <<>>, <<>>)
asarray(views) ==
    IF views.n = 0 THEN ndarray(<<0>>, <<>>)
    ELSE ndarray(<<views.n>> \o views.shape, views.data)

\* ------------------------------------------------- LookingGlassQuilt.formats
Layout(quilt_width, quilt_height, view_width, view_height, columns, rows) ==
    [quilt_width |-> quilt_width, quilt_height |-> quilt_height,
     view_width |-> view_width, view_height |-> view_height,
     columns |-> columns, rows |-> rows]

\* formats.__dict: the entries in insertion order
formats_dict ==
    << [id |-> 1, values |-> Layout(2048, 2048, 512, 256, 4, 8)],
       [id |-> 2, values |-> Layout(4096, 4096, 819, 455, 5, 9)],
       [id |-> 3, values |-> Layout(8192, 8192, 1638, 910, 5, 9)],
       [id |-> 4, values |-> Layout(3360, 3360, 420, 560, 8, 6)],
       [id |-> 5, values |-> Layout(4095, 4225, 585, 325, 7, 13)] >>

Keys(dict) == {dict[k].id : k \in 1..Len(dict)}

\* formats.get(id)
formats_get(dict, id) == dict[CHOOSE k \in 1..Len(dict) : dict[k].id = id].values

\* formats.set(id, values)
formats_set(dict, id, values) ==
    [k \in 1..Len(dict) |-> IF dict[k].id = id THEN [id |-> id, values |-> values] ELSE dict[k]]

\* formats.add(values): stored under the key len(dict) + 1
formats_add(dict, values) ==
    LET key == Len(dict) + 1
        dict2 == IF key \in Keys(dict) THEN formats_set(dict, key, values)
                 ELSE Append(dict, [id |-> key, values |-> values])
    IN  [dict |-> dict2, ret |-> Len(dict2)]

\* formats.remove(id)
formats_remove(dict, id) == SelectSeq(dict, LAMBDA e : e.id # id)

\* --------------------------------------------------------- LookingGlassQuilt
\* A key the class-level metadata dict does not hold yet
Unset == -1

\* BaseLightfieldImageFormat.__metadata = {}: one dict, of the class
NoMetadata ==
    [quilt_width |-> Unset, quilt_height |-> Unset, view_width |-> Unset,
     view_height |-> Unset, rows |-> Unset, columns |-> Unset, count |-> Unset]

\* The class and its instances as a value: the catalog, the metadata dict
\* every instance reads through self.metadata, and the instances
Quilts == [formats |-> formats, metadata |-> metadata, list |-> quilts]

Made(Z, exc, obj) == [Z |-> Z, exc |-> exc, obj |-> obj]

\* LookingGlassQuilt(id)
LookingGlassQuilt_init(Z, id) ==
    LET instance == [views |-> NoViews, views_format |-> "None",
                     colormode |-> "RGBA", colorchannels |-> 4]
        made(md) == Made([Z EXCEPT !.metadata = md, !.list = Append(@, instance)],
                         NoError, Len(Z.list) + 1)
    IN  IF id = None
        THEN made([quilt_width |-> 0, quilt_height |-> 0, view_width |-> 0,
                   view_height |-> 0, rows |-> 0, columns |-> 0, count |-> 0])
        ELSE IF id \in Keys(Z.formats)
        THEN LET qf == formats_get(Z.formats, id)
             IN  made([quilt_width |-> qf.quilt_width, quilt_height |-> qf.quilt_height,
                       view_width |-> qf.view_width, view_height |-> qf.view_height,
                       rows |-> qf.rows, columns |-> qf.columns,
                       count |-> qf.rows * qf.columns])
        ELSE Made(Z, "TypeError", None)

\* A plausible slip: the views stored without the count check
set_views_unchecked(Z, q, views, format) ==
    Made([Z EXCEPT !.list[q].views = views, !.list[q].views_format = format], NoError, None)

\* quilt.set_views(views, format)
set_views(Z, q, views, format) ==
    IF views.n = Z.metadata.count
    THEN Made([Z EXCEPT !.list[q].views = views, !.list[q].views_format = format],
              NoError, None)
    ELSE Made(Z, "ValueError", None)

\* The catalog scan of load(): every matching entry overwrites the metadata
RECURSIVE load_match(_, _, _, _)
load_match(dict, k, image, m) ==
    IF k > Len(dict) THEN m
    ELSE LET qf == dict[k].values
         IN  IF /\ image.width \in (qf.quilt_width - 1)..qf.quilt_width
                /\ image.height \in (qf.quilt_height - 1)..qf.quilt_height
             THEN load_match(dict, k + 1, image,
                             [found |-> TRUE,
                              metadata |-> [m.metadata EXCEPT
                                  !.rows = qf.rows, !.columns = qf.columns,
                                  !.count = qf.rows * qf.columns,
                                  !.view_width = qf.view_width,
                                  !.view_height = qf.view_height]])
             ELSE load_match(dict, k + 1, image, m)

\* A plausible slip: the grid reshaped to the views without the axis swap
load_reshape_unswapped(quilt_np, md, colorchannels) ==
    LET r == reshape(quilt_np, <<md.rows, md.view_height, md.columns, md.view_width,
                                 colorchannels>>)
    IN  IF r.exc # NoError THEN r
        ELSE reshape(r.arr, <<md.count, md.view_height, md.view_width, colorchannels>>)

\* The split of load(): quilt grid to the array of views
load_reshape(quilt_np, md, colorchannels) ==
    LET r == reshape(quilt_np, <<md.rows, md.view_height, md.columns, md.view_width,
                                 colorchannels>>)
    IN  IF r.exc # NoError THEN r
        ELSE reshape(swapaxes(r.arr, 1, 2),
                     <<md.count, md.view_height, md.view_width, colorchannels>>)

NoFile == [exists |-> FALSE, width |-> 0, height |-> 0, mode |-> "", data |-> <<>>]
Channels(mode) == IF mode = "RGB" THEN 3 ELSE 4

\* quilt.load(filepath): `image` is what the file at filepath holds
load(Z, q, image) ==
    IF ~image.exists THEN Made(Z, "FileNotFoundError", FALSE)
    ELSE
    LET m == load_match(Z.formats, 1, image, [found |-> FALSE, metadata |-> Z.metadata])
    IN  IF ~m.found THEN Made(Z, "TypeError", FALSE)
        ELSE
        LET quilt_np == crop(ndarray(<<image.height, image.width, Channels(image.mode)>>,
                                     image.data),
                             m.metadata.rows * m.metadata.view_height,
                             m.metadata.columns * m.metadata.view_width)
            md == [m.metadata EXCEPT !.quilt_height = quilt_np.shape[1],
                                     !.quilt_width = quilt_np.shape[2]]
            Z2 == [Z EXCEPT !.metadata = md,
                            !.list[q].colormode = image.mode,
                            !.list[q].colorchannels = quilt_np.shape[3]]
            views == load_reshape(quilt_np, md, quilt_np.shape[3])
        IN  IF views.exc # NoError THEN Made(Z2, views.exc, FALSE)
            ELSE LET stored == set_views(Z2, q,
                                         Views(md.count, Tail(views.arr.shape), views.arr.data),
                                         "numpyarray")
                 IN  Made(stored.Z, stored.exc, stored.exc = NoError)

\* quilt.__from_views_to_quilt_numpy()
from_views_to_quilt_numpy(Z, q) ==
    LET md == Z.metadata
        r == reshape(asarray(Z.list[q].views),
                     <<md.rows, md.columns, md.view_height, md.view_width,
                       Z.list[q].colorchannels>>)
    IN  IF r.exc # NoError THEN r
        ELSE reshape(swapaxes(r.arr, 1, 2),
                     <<md.quilt_height, md.quilt_width, Z.list[q].colorchannels>>)

\* quilt.decode(format) without a custom decoder: the quilt as a BMP in memory
decode(Z, q, format) ==
    IF format # "bytesio" THEN [exc |-> "TypeError", arr |-> ndarray(<<>>, <<>>)]
    ELSE IF Z.list[q].views_format # "numpyarray"
    THEN [exc |-> "TypeError", arr |-> ndarray(<<>>, <<>>)]
    ELSE from_views_to_quilt_numpy(Z, q)

\* ---------------------------------------------------------------- actions
Constructed == 1..svc_next

\* The service registry after a ServiceManager method
ServicesBecome(S) ==
    /\ svc' = S.svc
    /\ svc_next' = S.next
    /\ service_list' = S.list
    /\ svc_active' = S.active
    /\ svc_service_active' = S.service_active
    /\ UNCHANGED devVars
    /\ UNCHANGED quiltVars
    /\ UNCHANGED chanVars
    /\ UNCHANGED calibration

ServiceAdd ==
    /\ svc_next < MaxServices
    /\ \E t \in ServiceTypeArgs, dial \in DialOutcomes, r1 \in InfoReplies, r2 \in InfoReplies :
          ServicesBecome(ServiceManager_add(Services, t, dial, r1, r2).S)

ServiceRemove ==
    \E s \in Constructed, r \in InfoReplies :
        ServicesBecome(ServiceManager_remove(Services, s, r).S)

ServiceSetActive ==
    \E s \in Constructed : ServicesBecome(ServiceManager_set_active(Services, s).S)

ServiceResetActive ==
    ServicesBecome(ServiceManager_reset_active(Services))

\* service.__del__(): the caller closes a service
ServiceDel ==
    \E s \in Constructed :
        /\ svc' = [svc EXCEPT ![s] = del(svc[s])]
        /\ UNCHANGED <<svc_next, service_list, svc_active, svc_service_active>>
        /\ UNCHANGED devVars
    /\ UNCHANGED quiltVars
    /\ UNCHANGED chanVars
    /\ UNCHANGED calibration

\* service.get_version(): the caller asks a service for its version
ServiceGetVersion ==
    \E s \in Constructed, r \in InfoReplies :
        /\ svc' = [svc EXCEPT ![s] = get_version(svc[s], r).s]
        /\ UNCHANGED <<svc_next, service_list, svc_active, svc_service_active>>
        /\ UNCHANGED devVars
    /\ UNCHANGED quiltVars
    /\ UNCHANGED chanVars
    /\ UNCHANGED calibration

\* service.get_devices(), display() and clear(): the caller asks a service
\* for its devices, shows a lightfield, clears a display.  The instance is as
\* before unless the call raised out of the receive.
ServiceGetDevices ==
    \E s \in Constructed, r \in DeviceReplies :
        /\ svc' = [svc EXCEPT ![s] = get_devices(svc[s], r).s]
        /\ UNCHANGED <<svc_next, service_list, svc_active, svc_service_active>>
        /\ UNCHANGED devVars
    /\ UNCHANGED quiltVars
    /\ UNCHANGED chanVars
    /\ UNCHANGED calibration

ServiceDisplay ==
    \E s \in Constructed, decoded \in Decodings, info \in InfoReplies, r \in InfoReplies :
        /\ svc' = [svc EXCEPT ![s] = display(svc[s], decoded, info, r).s]
        /\ UNCHANGED <<svc_next, service_list, svc_active, svc_service_active>>
        /\ UNCHANGED devVars
    /\ UNCHANGED quiltVars
    /\ UNCHANGED chanVars
    /\ UNCHANGED calibration

ServiceClear ==
    \E s \in Constructed, r \in InfoReplies :
        /\ svc' = [svc EXCEPT ![s] = clear(svc[s], r).s]
        /\ UNCHANGED <<svc_next, service_list, svc_active, svc_service_active>>
        /\ UNCHANGED devVars
    /\ UNCHANGED quiltVars
    /\ UNCHANGED chanVars
    /\ UNCHANGED calibration

\* ------------------------------------------------- requests in flight
\* The four methods of a service that talk to the driver, each with the
\* replies the driver may give; the decoding of the lightfield in display()
\* is taken as successful.  display() makes two round trips, the info
\* request of its print and the show request.
Invoke(s, m, reply) ==
    CASE m = "get_version" -> get_version(s, reply)
      [] m = "get_devices" -> get_devices(s, reply)
      [] m = "display" -> display(s, Decoded(NoError, "BytesIO"), reply, reply)
      [] m = "clear" -> clear(s, reply)

\* socket.send(): the request is on the wire
socket_send(chan, cmd) == Append(chan, cmd)

\* A plausible slip: a request whose receive timed out still counted as pending
socket_recv_unfailed(chan, reply) ==
    IF reply.kind = "timeout" THEN chan ELSE Tail(chan)

\* socket.recv(): the reply arrives, or the receive timeout elapses and the
\* request has failed; either way it is outstanding no longer
socket_recv(chan, reply) == Tail(chan)

\* A method is called.  Where its guards let it reach __send_message with
\* an open socket, the request goes out and the thread blocks in recv();
\* otherwise the method is over without a request.
Call ==
    \E s \in Constructed, m \in {"get_version", "get_devices", "display", "clear"} :
        LET r == Invoke(svc[s], m, Timeout)
        IN  /\ caller.at = "idle"
            /\ IF r.sent # <<>>
               THEN /\ channel' = [channel EXCEPT ![s] = socket_send(@, r.sent[1])]
                    /\ caller' = [at |-> "recv", service |-> s, method |-> m,
                                  raised |-> caller.raised]
               ELSE /\ channel' = channel
                    /\ caller' = Returned(r.exc)
            /\ UNCHANGED svcVars
            /\ UNCHANGED devVars
            /\ UNCHANGED quiltVars
            /\ UNCHANGED calibration

\* recv() returns or raises pynng.Timeout, and the method runs to its end or,
\* in display() after the info request was answered, to its show request
Receive ==
    /\ caller.at = "recv"
    /\ \E reply \in IF caller.method = "get_devices" THEN DeviceReplies ELSE InfoReplies :
          LET s == caller.service
              r == Invoke(svc[s], caller.method, reply)
          IN  CASE caller.method = "display" /\ reply.kind = "reply" ->
                     /\ channel' = [channel EXCEPT
                                       ![s] = socket_send(socket_recv(@, reply), "show")]
                     /\ svc' = [svc EXCEPT ![s] = r.s]
                     /\ caller' = [caller EXCEPT !.method = "show"]
                [] caller.method = "show" ->
                     /\ channel' = [channel EXCEPT ![s] = socket_recv(@, reply)]
                     /\ svc' = svc
                     /\ caller' = Returned(send_message(svc[s], "show", reply).exc)
                [] OTHER ->
                     /\ channel' = [channel EXCEPT ![s] = socket_recv(@, reply)]
                     /\ svc' = [svc EXCEPT ![s] = r.s]
                     /\ caller' = Returned(r.exc)
    /\ UNCHANGED <<svc_next, service_list, svc_active, svc_service_active>>
    /\ UNCHANGED devVars
    /\ UNCHANGED quiltVars
    /\ UNCHANGED calibration

\* --------------------------------------------------- calibration values
\* get_devices() takes the calibration dict out of a decoded reply: the
\* driver's fields, flattened
DecodeCalibration ==
    /\ \E screenW \in {1536, 2560}, screenH \in {1600, 2048}, DPI \in {324, 338},
          pitch \in {47, 52}, slope \in {-7, -5, 5}, flipSubp \in {0, 1} :
          calibration' = [screenW |-> screenW, screenH |-> screenH, DPI |-> DPI,
                          pitch |-> pitch, slope |-> slope, flipSubp |-> flipSubp,
                          center |-> 42, serial |-> "LKG-A"]
    /\ UNCHANGED svcVars
    /\ UNCHANGED devVars
    /\ UNCHANGED quiltVars
    /\ UNCHANGED chanVars

\* self.__calculate_derived(configuration), once on the dict of a reply
CalculateDerived ==
    /\ calibration # <<>>
    /\ "tilt" \notin DOMAIN calibration
    /\ calibration' = calculate_derived_values(calibration)
    /\ UNCHANGED svcVars
    /\ UNCHANGED devVars
    /\ UNCHANGED quiltVars
    /\ UNCHANGED chanVars

\* The registry after a DeviceManager method
Becomes(R) ==
    /\ ~R.over
    /\ dev_list' = R.list
    /\ dev_active' = R.active
    /\ ids_given' = R.ids
    /\ dev_count' = R.count
    /\ UNCHANGED dev_service
    /\ UNCHANGED svcVars
    /\ UNCHANGED quiltVars
    /\ UNCHANGED chanVars
    /\ UNCHANGED calibration

SetService ==
    \E s \in Constructed :
        /\ dev_service' = s
        /\ UNCHANGED <<dev_list, dev_active, ids_given, dev_count>>
        /\ UNCHANGED svcVars
        /\ UNCHANGED quiltVars
        /\ UNCHANGED chanVars
        /\ UNCHANGED calibration

Refresh ==
    \E reply \in DeviceReplies : Becomes(refresh(Registry, dev_service, reply).R)

\* refresh() while the driver reports what it likes: the same serial more
\* than once in a report, too
RefreshRepeating ==
    \E v \in Versions, report \in SeqsUpTo(ReportedDevices, MaxReport) :
        Becomes(refresh(Registry, dev_service, DeviceReply(0, v, report)).R)

\* add_device(device_type) as the caller uses it: without a configuration
AddDevice ==
    \E t \in DeviceTypeArgs :
        Becomes(add_device(Registry, t, NoDevice.configuration, FALSE, dev_service).R)

Orders == {<<"standard", "portrait">>, <<"portrait", "standard">>}
Filters == SUBSET DeviceTypes

AddEmulated ==
    \E filter \in Filters, order \in Orders : Becomes(add_emulated(Registry, filter, order))

RemoveDevice ==
    \E i \in 0..Len(dev_list) : Becomes(remove_device(Registry, i).R)

SetActive ==
    \E id \in 0..MaxDevices : Becomes(set_active(Registry, id).R)

ResetActive ==
    Becomes(reset_active(Registry))

\* device.display(...) and device.clear() on a listed device
Display ==
    \E i \in 1..Len(dev_list), lightfield \in Lightfields, aspect \in BOOLEAN,
       decoded \in Decodings, info \in InfoReplies, reply \in InfoReplies :
        LET r == Device_display(dev_list[i], lightfield, aspect, decoded, info, reply)
        IN  /\ dev_list' = [dev_list EXCEPT ![i] = r.s]
            /\ svc' = IF r.sent = <<>> THEN svc
                      ELSE [svc EXCEPT ![dev_list[i].service] = get_version(@, info).s]
        /\ UNCHANGED <<svc_next, service_list, svc_active, svc_service_active>>
        /\ UNCHANGED <<dev_active, ids_given, dev_count, dev_service>>
        /\ UNCHANGED quiltVars
        /\ UNCHANGED chanVars
        /\ UNCHANGED calibration

Clear ==
    \E i \in 1..Len(dev_list), reply \in InfoReplies :
        /\ dev_list' = [dev_list EXCEPT ![i] = Device_clear(@, reply).s]
        /\ UNCHANGED <<dev_active, ids_given, dev_count, dev_service>>
        /\ UNCHANGED svcVars
        /\ UNCHANGED quiltVars
        /\ UNCHANGED chanVars
        /\ UNCHANGED calibration

\* The module as imported: empty registries
InitServices ==
    /\ svc = [i \in 1..MaxServices |-> NoService]
    /\ svc_next = 0
    /\ service_list = <<>>
    /\ svc_active = None
    /\ svc_service_active = "unset"
    /\ dev_list = <<>>
    /\ dev_active = NoneRef
    /\ ids_given = {}
    /\ dev_count = 0
    /\ dev_service = None
    /\ formats = formats_dict
    /\ metadata = NoMetadata
    /\ quilts = <<>>
    /\ channel = [i \in 1..MaxServices |-> <<>>]
    /\ caller = Returned(NoError)
    /\ calibration = <<>>

NextServices ==
    \/ ServiceAdd \/ ServiceRemove \/ ServiceSetActive \/ ServiceResetActive
    \/ ServiceDel \/ ServiceGetVersion
    \/ ServiceGetDevices \/ ServiceDisplay \/ ServiceClear

SpecServices == InitServices /\ [][NextServices]_vars

\* Between two calls the program constructs and tears down services; the
\* requests of a construction are sent and answered within it
NextChannel ==
    \/ Call \/ Receive
    \/ caller.at = "idle" /\ ServiceAdd
    \/ caller.at = "idle" /\ ServiceDel

SpecChannel == InitServices /\ [][NextChannel]_vars

SpecCalibration == InitServices /\ [][DecodeCalibration \/ CalculateDerived]_vars

\* The device registry after "service = ServiceManager.add(HoloPlayService)"
\* with the driver running: one service, connected, registered and active
Init ==
    \E v \in Versions :
        LET added == ServiceManager_add([svc |-> [i \in 1..MaxServices |-> NoService],
                                         next |-> 0, list |-> <<>>, active |-> None,
                                         service_active |-> "unset"],
                                        "holoplayservice", "connected",
                                        InfoReply(0, v), InfoReply(0, v)).S
        IN  /\ svc = added.svc
            /\ svc_next = added.next
            /\ service_list = added.list
            /\ svc_active = added.active
            /\ svc_service_active = added.service_active
            /\ dev_list = <<>>
            /\ dev_active = NoneRef
            /\ ids_given = {}
            /\ dev_count = 0
            /\ dev_service = None
            /\ formats = formats_dict
            /\ metadata = NoMetadata
            /\ quilts = <<>>
            /\ channel = [i \in 1..MaxServices |-> <<>>]
            /\ caller = Returned(NoError)
            /\ calibration = <<>>

Next ==
    \/ SetService \/ ServiceDel
    \/ Refresh \/ AddDevice \/ AddEmulated \/ RemoveDevice \/ SetActive \/ ResetActive

Spec == Init /\ [][Next]_vars

\* The devices a refresh or add_device() tracks, with lightfields shown on
\* them and cleared
NextDisplay ==
    \/ SetService \/ ServiceDel \/ Refresh \/ AddDevice \/ Display \/ Clear

SpecDisplay == Init /\ [][NextDisplay]_vars

SpecRefresh ==
    Init /\ [][SetService \/ ServiceDel \/ Refresh \/ RefreshRepeating \/ RemoveDevice]_vars

\* -------------------------------------------------------- quilts: actions
\* Layouts a caller registers: a small grid (3 columns of 1 px, 2 rows of
\* 2 px) and the near-duplicate of catalog entry 5 the test script adds
SmallLayout == Layout(3, 4, 1, 2, 3, 2)
ExtraLayouts == {SmallLayout, Layout(4096, 4226, 585, 325, 7, 13)}

\* The layouts a caller has views for: catalog entries 1 and 2, the small grid
ViewLayouts == {formats_dict[1].values, formats_dict[2].values, SmallLayout}

\* n views of a shape, every tracked element marked with its position
MarkedViews(n, shape) ==
    Views(n, shape, IF n * Size(shape) <= MaxElements
                    THEN [k \in 1..(n * Size(shape)) |-> k] ELSE <<>>)

\* The view lists a caller passes: for each of these layouts the right number
\* of views and one view too few
ViewInputs ==
    {NoViews} \cup
    {MarkedViews(L.rows * L.columns - less, <<L.view_height, L.view_width, 4>>) :
        L \in ViewLayouts, less \in {0, 1}}

ViewsFormats == {"numpyarray", "bytesio"}

File(width, height, mode) ==
    [exists |-> TRUE, width |-> width, height |-> height, mode |-> mode,
     data |-> IF width * height * Channels(mode) <= MaxElements
              THEN [k \in 1..(width * height * Channels(mode)) |-> k] ELSE <<>>]

\* The files a caller loads: none, quilts of catalog size and one pixel off,
\* a small quilt, and an image of no catalog size
Files ==
    {NoFile, File(100, 100, "RGBA"), File(3, 4, "RGBA"), File(3, 4, "RGB"),
     File(2048, 2048, "RGBA"), File(2047, 2047, "RGBA"),
     File(4096, 4096, "RGBA"), File(4095, 4095, "RGBA"), File(4097, 4097, "RGBA")}

QuiltIds == {None} \cup 1..MaxFormats \cup {MaxFormats + 1}

QuiltsBecome(Z) ==
    /\ formats' = Z.formats
    /\ metadata' = Z.metadata
    /\ quilts' = Z.list
    /\ UNCHANGED svcVars
    /\ UNCHANGED devVars
    /\ UNCHANGED chanVars
    /\ UNCHANGED calibration

NewQuilt ==
    /\ Len(quilts) < MaxQuilts
    /\ \E id \in QuiltIds : QuiltsBecome(LookingGlassQuilt_init(Quilts, id).Z)

SetViews ==
    \E q \in 1..Len(quilts), views \in ViewInputs, format \in ViewsFormats :
        QuiltsBecome(set_views(Quilts, q, views, format).Z)

Load ==
    \E q \in 1..Len(quilts), image \in Files : QuiltsBecome(load(Quilts, q, image).Z)

FormatsAdd ==
    /\ Len(formats) < MaxFormats
    /\ \E values \in ExtraLayouts :
          QuiltsBecome([Quilts EXCEPT !.formats = formats_add(formats, values).dict])

\* The catalog ids a caller removes (the first, the last) and replaces
RemoveIds == {1, MaxFormats}
SetIds == {MaxFormats}

FormatsRemove ==
    \E id \in RemoveIds :
        QuiltsBecome([Quilts EXCEPT !.formats = formats_remove(formats, id)])

FormatsSet ==
    \E id \in SetIds, values \in ExtraLayouts :
        QuiltsBecome([Quilts EXCEPT !.formats = formats_set(formats, id, values)])

NextQuilt ==
    \/ NewQuilt \/ SetViews \/ Load \/ FormatsAdd \/ FormatsRemove \/ FormatsSet

SpecQuilt == InitServices /\ [][NextQuilt]_vars

\* The quilt instances alone, with the catalog as shipped
NextQuiltViews == NewQuilt \/ SetViews \/ Load

SpecQuiltViews == InitServices /\ [][NextQuiltViews]_vars

\* The quilt instances with small layouts a caller registers first, so that
\* every pixel of a quilt is followed: the small grid, and a grid of the same
\* views in an image one pixel larger than the views need
RoundedLayout == Layout(4, 5, 1, 2, 3, 2)

FormatsAddSmall ==
    /\ Len(formats) < MaxFormats
    /\ \E values \in {SmallLayout, RoundedLayout} :
          QuiltsBecome([Quilts EXCEPT !.formats = formats_add(formats, values).dict])

\* The small images a caller loads; the caller constructs with no id or the
\* id of an added layout and sets six views or five
SmallFiles == {File(3, 4, "RGBA"), File(3, 4, "RGB"), File(4, 5, "RGB")}

NewSmallQuilt ==
    /\ Len(quilts) < MaxQuilts
    /\ \E id \in {None} \cup (Len(formats_dict) + 1)..MaxFormats : QuiltsBecome(LookingGlassQuilt_init(Quilts, id).Z)

SetSmallViews ==
    \E q \in 1..Len(quilts), less \in {0, 1}, format \in ViewsFormats :
        LET views == MarkedViews(6 - less, <<2, 1, 4>>) IN
        QuiltsBecome(set_views(Quilts, q, views, format).Z)

LoadSmall ==
    \E q \in 1..Len(quilts), image \in SmallFiles : QuiltsBecome(load(Quilts, q, image).Z)

NextQuiltSmall == FormatsAddSmall \/ NewSmallQuilt \/ SetSmallViews \/ LoadSmall

SpecQuiltSmall == InitServices /\ [][NextQuiltSmall]_vars

\* A caller replaces a catalog entry by a layout of the small image's size
\* with another grid: one column of four views, three pixels wide
FormatsSetGrid ==
    \E id \in {1, Len(formats_dict)} :
        QuiltsBecome([Quilts EXCEPT !.formats = formats_set(formats, id, Layout(3, 4, 3, 1, 1, 4))])

\* The catalog with two layouts of one image size, and small images loaded
SpecQuiltMatch ==
    InitServices /\ [][FormatsAdd \/ FormatsSetGrid \/ NewSmallQuilt \/ LoadSmall]_vars

\* ------------------------------------------------------------------ claims
\* The emulated devices of a hardware type in a device list
EmulatedOf(list, type) == {i \in 1..Len(list) : list[i].emulated /\ list[i].type = type}

\* The serials a driver reply reports, with whatever state
ReportedSerials(reply) == {reply.devices[k].serial : k \in 1..Len(reply.devices)}

\* The serials a driver reply reports with state "ok"
OkSerials(reply) ==
    {reply.devices[k].serial : k \in {j \in 1..Len(reply.devices) : reply.devices[j].state = "ok"}}

\* Error-free replies whose devices all have a hardware type this module knows
WellFormedReplies ==
    {reply \in DeviceReplies :
        /\ reply.kind = "reply" /\ reply.error = 0
        /\ \A k \in 1..Len(reply.devices) : reply.devices[k].hardwareVersion \in DeviceTypes}

ServiceReady == dev_service # None /\ is_ready(svc[dev_service])

\* C1: refresh() on a ready service keeps every tracked device D (serial S) in
\* its place with the same id and the same displayed lightfield; when the
\* report omits S a connected D becomes connected=false, and when the report
\* contains S then D gets a reported configuration and connected=true.
C1_RefreshReconciles ==
    \A reply \in WellFormedReplies :
        ServiceReady =>
            LET r == refresh(Registry, dev_service, reply)
            IN  ~r.R.over =>
                \A i \in 1..Len(dev_list) :
                    LET D == dev_list[i]
                        after == r.R.list[i]
                    IN  ~D.emulated =>
                        /\ after.id = D.id
                        /\ after.lightfield = D.lightfield
                        /\ (D.connected /\ serial(D) \notin ReportedSerials(reply)
                                => ~after.connected)
                        /\ (serial(D) \in OkSerials(reply)
                                => /\ after.connected
                                   /\ \E k \in 1..Len(r.obj.ret.devices) :
                                        /\ r.obj.ret.devices[k].serial = serial(D)
                                        /\ after.configuration = r.obj.ret.devices[k])

\* C2: the ids given to devices are pairwise different, also those of devices
\* that have been removed: as many different ids were given as devices created.
C2_IdsNeverReused == Cardinality(ids_given) = dev_count

\* C3: remove_device(d) for the active device d leaves no active device.
C3_RemoveClearsActive ==
    \A i \in 1..Len(dev_list) :
        get_active(Registry) = Listed(i) =>
            LET r == remove_device(Registry, i)
            IN  r.exc = NoError /\ get_active(r.R) = NoneRef

\* C4: ServiceManager.remove(s) for the active service s leaves no active
\* service, and never an active service that is not in the service list.
C4_RemoveClearsActiveService ==
    \A s \in Constructed, reply \in InfoReplies :
        (InList(s, service_list) /\ ServiceManager_get_active(Services) = s) =>
            LET d == ServiceManager_remove(Services, s, reply)
            IN  d.exc = NoError =>
                    /\ ServiceManager_get_active(d.S) = None
                    /\ ~InList(s, d.S.list)

\* C5: ServiceManager.add(type) appends the new service and makes it active
\* iff there was no active service or the active one was not ready; add() on
\* an empty registry makes the new service active.
C5_AddPromotes ==
    \A dial \in DialOutcomes, r1 \in InfoReplies, r2 \in InfoReplies :
        svc_next < MaxServices =>
            LET d == ServiceManager_add(Services, "holoplayservice", dial, r1, r2)
            IN  d.obj # None =>
                    /\ d.S.list = Append(service_list, d.obj)
                    /\ (d.S.active = d.obj) <=> (svc_active = None \/ ~is_ready(svc[svc_active]))
                    /\ (d.S.active # d.obj => d.S.active = svc_active)
                    /\ (service_list = <<>> => d.S.active = d.obj)

\* C6 as claimed: there is at most one emulated device per hardware type in
\* every reachable state, and add_emulated() twice is add_emulated() once.
C6_OneEmulatedPerType ==
    /\ \A t \in DeviceTypes : Cardinality(EmulatedOf(dev_list, t)) <= 1
    /\ \A filter \in Filters, o1 \in Orders, o2 \in Orders :
        LET once == add_emulated(Registry, filter, o1)
        IN  ~once.over => add_emulated(once, filter, o2) = once

\* C6 as amended: add_emulated() adds no emulated device for a type that has
\* one and at most one for a type that has none, keeps the listed devices, and
\* a second add_emulated() directly after a first changes nothing.
C6_AddEmulatedIdempotent ==
    \A filter \in Filters, o1 \in Orders, o2 \in Orders :
        LET once == add_emulated(Registry, filter, o1)
        IN  ~once.over =>
                /\ \A t \in DeviceTypes :
                      IF EmulatedOf(dev_list, t) = {}
                      THEN Cardinality(EmulatedOf(once.list, t)) <= 1
                      ELSE EmulatedOf(once.list, t) = EmulatedOf(dev_list, t)
                /\ SubSeq(once.list, 1, Len(dev_list)) = dev_list
                /\ add_emulated(once, filter, o2) = once

\* C6 witness: both hardware types are emulated, one device each (the state
\* add_emulated() leaves on an empty registry), and calling it again adds none.
C6_Witness ==
    /\ Len(dev_list) = 2
    /\ \A t \in DeviceTypes : Cardinality(EmulatedOf(dev_list, t)) = 1
    /\ \A filter \in Filters, o \in Orders : add_emulated(Registry, filter, o).list = dev_list

\* C7: add_emulated(exclude_types) constructs no emulated device for a type in
\* exclude_types, and exactly one (no service, connected=false, emulated=true)
\* for every other type that is not yet emulated.
C7_ExcludedTypesSkipped ==
    \A filter \in Filters, order \in Orders :
        LET r == add_emulated(Registry, filter, order)
            new == {i \in 1..Len(r.list) : i > Len(dev_list)}
        IN  ~r.over =>
                /\ \A i \in new :
                      /\ r.list[i].type \notin filter
                      /\ r.list[i].emulated /\ ~r.list[i].connected
                      /\ r.list[i].service = None
                /\ \A t \in DeviceTypes \ filter :
                      EmulatedOf(dev_list, t) = {} =>
                          Cardinality({i \in new : r.list[i].type = t}) = 1

\* The instances that hold views: set_views() has stored a list of views in them
HoldsViews(q) == quilts[q].views_format # "None" /\ quilts[q].views.n > 0

\* C8: set_views(views, format) raises a validation error and stores nothing
\* (views and views format as before) when len(views) differs from
\* rows*columns of the instance's layout, and stores the views when they agree.
C8_SetViewsValidates ==
    \A q \in 1..Len(quilts), views \in ViewInputs, format \in ViewsFormats :
        LET r == set_views(Quilts, q, views, format)
        IN  IF views.n = metadata.rows * metadata.columns
            THEN /\ r.exc = NoError
                 /\ r.Z.list[q].views = views
                 /\ r.Z.list[q].views_format = format
                 /\ r.Z = [Quilts EXCEPT !.list[q].views = views,
                                         !.list[q].views_format = format]
            ELSE /\ r.exc = "ValueError"
                 /\ r.Z = Quilts

\* C8 witness: an instance holds a list that set_views() accepted for a layout
\* with views, and set_views() refuses a list of another length on it.
C8_Witness ==
    \E q \in 1..Len(quilts) :
        /\ HoldsViews(q)
        /\ quilts[q].views.n = metadata.rows * metadata.columns
        /\ \E views \in ViewInputs :
              /\ views.n # quilts[q].views.n
              /\ set_views(Quilts, q, views, "numpyarray").exc = "ValueError"
              /\ set_views(Quilts, q, views, "numpyarray").Z.list[q] = quilts[q]

\* C9: every instance that holds views holds as many as the view count
\* rows*columns of its layout metadata, whatever was called before.
C9_ViewCountMatchesLayout ==
    \A q \in 1..Len(quilts) :
        HoldsViews(q) => quilts[q].views.n = metadata.rows * metadata.columns

\* C10: for a quilt constructed from any catalog id and holding rows*columns
\* views of shape (view_height, view_width, channels), the views-to-quilt
\* transform succeeds and the split of load() gives the same views back.
C10_RoundTrip ==
    \A id \in Keys(formats) :
        LET made == LookingGlassQuilt_init(Quilts, id)
            md == made.Z.metadata
            V == MarkedViews(md.count, <<md.view_height, md.view_width, 4>>)
            stored == set_views(made.Z, made.obj, V, "numpyarray")
            quilt_np == from_views_to_quilt_numpy(stored.Z, made.obj)
            back == load_reshape(quilt_np.arr, md, 4)
        IN  /\ stored.exc = NoError
            /\ quilt_np.exc = NoError
            /\ quilt_np.arr.shape = <<md.quilt_height, md.quilt_width, 4>>
            /\ back.exc = NoError
            /\ back.arr = asarray(V)

\* The tiles of an image (rows from the top) in reading order, tile i the one at grid row
\* (i div columns) from the top and grid column (i mod columns) from the left:
\* element k - 1 = ((i * view_height + y) * view_width + x) * channels + c is
\* element (y, x, c) of tile i
Tiles(data, width, channels, md) ==
    [k \in 1..(md.rows * md.columns * md.view_height * md.view_width * channels) |->
        LET c == (k - 1) % channels
            x == ((k - 1) \div channels) % md.view_width
            y == ((k - 1) \div (channels * md.view_width)) % md.view_height
            i == (k - 1) \div (channels * md.view_width * md.view_height)
            Y == (i \div md.columns) * md.view_height + y
            X == (i % md.columns) * md.view_width + x
        IN  data[(Y * width + X) * channels + c + 1]]

\* C11: view i of a loaded quilt is the tile at grid row (i div columns) from
\* the top and grid column (i mod columns) from the left of the image, index 0
\* the top-left tile; the quilt built from views has view i at that same tile.
C11_ViewOrder ==
    /\ \A q \in 1..Len(quilts), image \in SmallFiles :
          LET r == load(Quilts, q, image)
              V == r.Z.list[q].views
          IN  (r.exc = NoError /\ V.data # <<>>) =>
                  /\ V.n = r.Z.metadata.rows * r.Z.metadata.columns
                  /\ V.shape = <<r.Z.metadata.view_height, r.Z.metadata.view_width,
                                 Channels(image.mode)>>
                  /\ V.data = Tiles(image.data, image.width, Channels(image.mode),
                                    r.Z.metadata)
    /\ \A q \in 1..Len(quilts) :
          LET V == quilts[q].views
              built == from_views_to_quilt_numpy(Quilts, q)
          IN  (/\ HoldsViews(q) /\ V.data # <<>>
               /\ V.n = metadata.rows * metadata.columns
               /\ V.shape = <<metadata.view_height, metadata.view_width,
                              quilts[q].colorchannels>>
               /\ built.exc = NoError) =>
                  /\ built.arr.shape = <<metadata.quilt_height, metadata.quilt_width,
                                         quilts[q].colorchannels>>
                  /\ Tiles(built.arr.data, metadata.quilt_width, quilts[q].colorchannels,
                           metadata) = V.data

\* C11 witness: an instance holds the views load() split from the image that
\* is one pixel larger than its 3 by 2 grid of views (view 0 starts at element
\* 1 of the image, view 1 at its second column, view 3 at its third row), and
\* the quilt built from the views is the image without its last row and column.
C11_Witness ==
    \E q \in 1..Len(quilts) :
        /\ HoldsViews(q) /\ quilts[q].views.n = 6
        /\ quilts[q].views.shape = <<2, 1, 3>>
        /\ quilts[q].views.data[1] = 1
        /\ quilts[q].views.data[4] = 13
        /\ quilts[q].views.data[7] = 4
        /\ quilts[q].views.data[19] = 25
        /\ from_views_to_quilt_numpy(Quilts, q).exc = NoError
        /\ from_views_to_quilt_numpy(Quilts, q).arr.shape = <<4, 3, 3>>
        /\ from_views_to_quilt_numpy(Quilts, q).arr.data[10] = 13

\* C12: load() accepts an image of (w, h) for a catalog layout of quilt size
\* (W, H) whenever |w - W| <= 1 and |h - H| <= 1, also for w = W + 1 and
\* h = H + 1, and raises the format error exactly when no layout is that near.
C12_ToleranceOnePixel ==
    \A q \in 1..Len(quilts), image \in Files :
        image.exists =>
            LET near == {k \in 1..Len(formats) :
                            /\ image.width \in (formats[k].values.quilt_width - 1)
                                                ..(formats[k].values.quilt_width + 1)
                            /\ image.height \in (formats[k].values.quilt_height - 1)
                                                 ..(formats[k].values.quilt_height + 1)}
            IN  (load(Quilts, q, image).exc = "TypeError") <=> (near = {})

\* C13: for every image that is of the quilt size of a catalog layout or one
\* pixel smaller on either axis, load() succeeds and stores rows*columns views
\* of shape (view_height, view_width), and the quilt built from these views is
\* the image cropped to rows*view_height by columns*view_width.
C13_LoadReencodes ==
    \A q \in 1..Len(quilts), image \in Files :
        (/\ image.exists
         /\ \E k \in 1..Len(formats) :
               /\ image.width \in (formats[k].values.quilt_width - 1)
                                   ..formats[k].values.quilt_width
               /\ image.height \in (formats[k].values.quilt_height - 1)
                                    ..formats[k].values.quilt_height) =>
            LET r == load(Quilts, q, image)
                md == r.Z.metadata
                built == from_views_to_quilt_numpy(r.Z, q)
            IN  /\ r.exc = NoError
                /\ r.Z.list[q].views.n = md.rows * md.columns
                /\ r.Z.list[q].views.shape =
                       <<md.view_height, md.view_width, Channels(image.mode)>>
                /\ built.exc = NoError
                /\ built.arr = crop(ndarray(<<image.height, image.width,
                                              Channels(image.mode)>>, image.data),
                                    md.rows * md.view_height, md.columns * md.view_width)

\* C14: display() on a ready service returns success only when the reply to
\* the show request carries error 0, and reports failure (no success value)
\* when the reply carries a non-zero error.
C14_DisplayReportsError ==
    \A s \in Constructed, info \in InfoReplies, reply \in InfoReplies :
        (is_ready(svc[s]) /\ info.kind = "reply" /\ reply.kind = "reply") =>
            LET shown == display(svc[s], Decoded(NoError, "BytesIO"), info, reply)
            IN  /\ shown.sent[Len(shown.sent)] = "show"
                /\ (shown.exc = NoError /\ shown.ret = TRUE) <=> (reply.error = 0)

\* C15: on a ready service, a reply with a non-zero error to get_version(),
\* get_devices() or clear() gives an outcome (exception or returned value)
\* that differs from the outcome of an error-free reply and from the outcome
\* of the same call on a service that is not ready.
C15_ErrorReplySurfaced ==
    \A s \in Constructed, v \in Versions :
        is_ready(svc[s]) =>
            LET Seen(o) == <<o.exc, o.ret>>
                idle == disconnect(svc[s])
                failed == InfoReply(1, v)
            IN  /\ Seen(get_version(svc[s], failed))
                       \notin {Seen(get_version(svc[s], InfoReply(0, v))),
                               Seen(get_version(idle, failed))}
                /\ Seen(get_devices(svc[s], DeviceReply(1, v, <<>>)))
                       \notin {Seen(get_devices(svc[s], reply)) : reply \in WellFormedReplies}
                              \cup {Seen(get_devices(idle, DeviceReply(1, v, <<>>)))}
                /\ Seen(clear(svc[s], failed))
                       \notin {Seen(clear(svc[s], InfoReply(0, v))), Seen(clear(idle, failed))}

C17_EveryDeviceDerived ==
    \A s \in Constructed, reply \in DeviceReplies :
        is_ready(svc[s]) =>
            LET got == get_devices(svc[s], reply)
            IN  \A i \in 1..Len(got.ret.devices) : got.ret.devices[i].derived

\* C18: get_version() on a ready service sends one info request; a reply with
\* error 0 sets the cached version to the reply's version and returns it, a
\* reply with another error leaves the cache as it was (and the cached value
\* is returned); on a service that is not ready no request is sent and the
\* cached value is returned.  Nothing but the cached version changes.
C18_GetVersionCache ==
    \A s \in Constructed, reply \in InfoReplies :
        LET asked == get_version(svc[s], reply)
        IN  IF is_ready(svc[s])
            THEN /\ asked.sent = <<"info">>
                 /\ (reply.kind = "reply" /\ reply.error = 0) =>
                        /\ asked.exc = NoError
                        /\ asked.s = [svc[s] EXCEPT !.version = reply.version]
                        /\ asked.ret = reply.version
                 /\ (reply.kind = "reply" /\ reply.error # 0) =>
                        /\ asked.exc = NoError
                        /\ asked.s = svc[s]
                        /\ asked.ret = svc[s].version
                 /\ reply.kind = "timeout" => asked.s = svc[s]
            ELSE /\ asked.sent = <<>>
                 /\ asked.exc = NoError
                 /\ asked.s = svc[s]
                 /\ asked.ret = svc[s].version

\* C18 witness: one ready service whose cache is still empty (its info
\* requests were answered with an error) and keeps empty on another error
\* reply, and one ready service that has cached the version of a reply.
C18_Witness ==
    \E s \in Constructed, t \in Constructed, v \in Versions :
        /\ is_ready(svc[s]) /\ svc[s].version = ""
        /\ get_version(svc[s], InfoReply(1, v)).s.version = ""
        /\ get_version(svc[s], InfoReply(0, v)).s.version = v
        /\ is_ready(svc[t]) /\ svc[t].version = v

\* C19: a service is ready only after a successful connect and before it is
\* closed, and closed is terminal: a constructed instance comes out ready only
\* when its dial succeeded, an instance that is not ready never becomes ready,
\* a released socket stays released, and on an instance whose socket is
\* released is_ready() is false and no method sends a request.
C19_Lifecycle ==
    /\ [](/\ \A dial \in DialOutcomes, reply \in InfoReplies :
                is_ready(HoloPlayService_init(dial, reply).s) => dial = "connected"
          /\ \A s \in Constructed :
                ~svc[s].socket =>
                    /\ ~is_ready(svc[s])
                    /\ \A reply \in InfoReplies, decoded \in Decodings :
                          /\ get_version(svc[s], reply).sent = <<>>
                          /\ display(svc[s], decoded, reply, reply).sent = <<>>
                          /\ clear(svc[s], reply).sent = <<>>
                          /\ send_message(svc[s], "info", reply).sent = <<>>
                    /\ \A reply \in DeviceReplies : get_devices(svc[s], reply).sent = <<>>
                    /\ \A dial \in DialOutcomes, reply \in InfoReplies :
                          /\ connect(svc[s], dial, reply).sent = <<>>
                          /\ ~is_ready(connect(svc[s], dial, reply).s))
    /\ [][\A s \in Constructed :
              /\ ~svc[s].socket => ~svc'[s].socket
              /\ ~is_ready(svc[s]) => ~is_ready(svc'[s])]_vars

\* C19 witness: a service that was ready when a second one was added (the
\* second was not made active) has been closed since, while the second is
\* ready: the closed one answers is_ready() with false and sends nothing.
C19_Witness ==
    \E s \in Constructed, t \in Constructed :
        /\ svc_active = s /\ service_list = <<s, t>>
        /\ ~svc[s].socket /\ ~is_ready(svc[s])
        /\ is_ready(svc[t])
        /\ \A reply \in InfoReplies : get_version(svc[s], reply).sent = <<>>

\* C20: a service whose dial was refused is closed (socket released, no
\* dialer, empty cached version, is_ready() false), and another connect
\* attempt on it raises no error, whatever the driver does then.
C20_RefusedThenRetry ==
    \A s \in Constructed, reply \in InfoReplies :
        svc[s] = HoloPlayService_init("refused", reply).s =>
            /\ ~svc[s].socket /\ ~svc[s].dialer /\ svc[s].version = ""
            /\ ~is_ready(svc[s])
            /\ \A dial \in DialOutcomes, again \in InfoReplies \ {Timeout} :
                  connect(svc[s], dial, again).exc = NoError

\* C21: closing is idempotent: __close() and __del__() on a service that is
\* closed or not connected change nothing, once leaves the same instance as
\* twice (in either combination), and the teardown of a ready service
\* disconnects it and releases its socket.  Neither has a raising path.
C21_CloseIdempotent ==
    \A s \in Constructed :
        /\ close(close(svc[s])) = close(svc[s])
        /\ del(del(svc[s])) = del(svc[s])
        /\ close(del(svc[s])) = del(svc[s])
        /\ del(close(svc[s])) = close(svc[s])
        /\ ~is_ready(svc[s]) => (close(svc[s]) = svc[s] /\ del(svc[s]) = svc[s])
        /\ is_ready(svc[s]) =>
              /\ del(svc[s]) = [socket |-> FALSE, dialer |-> FALSE, version |-> ""]
              /\ del(svc[s]) # svc[s]

\* C21 witness: one registered service is closed (its dial was refused or it
\* was torn down) and closing it again changes nothing, and a ready one with
\* a cached version is left whose teardown releases its socket.
C21_Witness ==
    \E s \in Constructed, t \in Constructed :
        /\ InList(s, service_list) /\ InList(t, service_list)
        /\ ~svc[s].socket /\ ~svc[s].dialer /\ svc[s].version = ""
        /\ del(svc[s]) = svc[s] /\ close(svc[s]) = svc[s]
        /\ is_ready(svc[t]) /\ svc[t].version # ""
        /\ ~is_socket(del(svc[t]))

C23_DisplayRefuses ==
    \A i \in 1..Len(dev_list), lightfield \in Lightfields, aspect \in BOOLEAN,
       decoded \in Decodings, info \in InfoReplies, reply \in InfoReplies :
        LET d == dev_list[i]
            r == Device_display(d, lightfield, aspect, decoded, info, reply)
        IN  /\ TypeOf(lightfield) \notin DeviceFormats
                => r.exc = "TypeError" /\ r.sent = <<>> /\ r.s = d
            /\ TypeOf(lightfield) \in DeviceFormats /\ d.service = None
                => r.exc = "RuntimeError" /\ r.sent = <<>> /\ r.s = d
            /\ d.emulated => d.service = None

\* C23 happens: an emulated device is tracked next to a device with a ready
\* service that shows a lightfield, so that both refusals have something to
\* leave unchanged
C23_Witness ==
    \E i \in 1..Len(dev_list), j \in 1..Len(dev_list) :
        /\ dev_list[i].emulated /\ dev_list[i].service = None
        /\ dev_list[j].lightfield # None
        /\ is_ready(svc[dev_list[j].service])
        /\ Device_display(dev_list[j], 3, TRUE, Decoded(NoError, "BytesIO"),
                          InfoReply(0, "1.2.0"), InfoReply(0, "1.2.0")).exc = "TypeError"
        /\ Device_display(dev_list[i], 1, TRUE, Decoded(NoError, "BytesIO"),
                          InfoReply(0, "1.2.0"), InfoReply(0, "1.2.0")).exc = "RuntimeError"

\* C24: display(L) makes L the device's displayed lightfield only when the
\* driver answered the show request with error 0; after a reply with another
\* error code the device's displayed lightfield is the one it had before.
C24_StoredOnlyOnSuccess ==
    \A i \in 1..Len(dev_list), lightfield \in Lightfields, aspect \in BOOLEAN,
       decoded \in Decodings, info \in InfoReplies, reply \in InfoReplies :
        LET d == dev_list[i]
            r == Device_display(d, lightfield, aspect, decoded, info, reply)
            shown == r.sent # <<>> /\ r.sent[Len(r.sent)] = "show"
        IN  /\ r.s.lightfield # d.lightfield
                => shown /\ reply.kind = "reply" /\ reply.error = 0
            /\ shown /\ reply.kind = "reply" /\ reply.error # 0
                => r.s.lightfield = d.lightfield

\* C25: clear() on a tracked device that displays no lightfield sends no
\* request, raises nothing and changes nothing, whatever the device's type
\* and whether a service is bound or not; on a device that displays a
\* lightfield and has a service bound it sends the hide request and, once
\* that is answered, the device displays no lightfield.
C25_ClearWithoutLightfield ==
    \A i \in 1..Len(dev_list), reply \in InfoReplies :
        LET d == dev_list[i]
            r == Device_clear(d, reply)
        IN  /\ d.lightfield = None
                => r.exc = NoError /\ r.sent = <<>> /\ r.s = d
            /\ d.lightfield # None /\ d.service # None
                => /\ r.sent = <<"hide">>
                   /\ reply.kind = "reply" => r.s.lightfield = None

\* C26: remove_device(d) for an instance d that is not in the device list
\* raises ValueError and leaves the list and the active selection as they
\* are; after remove_device(d) took a listed d out, a second remove_device(d)
\* fails in that way.
C26_RemoveAbsentRaises ==
    /\ LET r == remove_device(Registry, 0)
       IN  r.exc = "ValueError" /\ r.R = Registry
    /\ \A i \in 1..Len(dev_list) :
          LET once == remove_device(Registry, i)
              twice == remove_device(once.R, 0)
          IN  /\ once.exc = NoError
              /\ Len(once.R.list) = Len(dev_list) - 1
              /\ twice.exc = "ValueError"
              /\ twice.R.list = once.R.list
              /\ twice.R.active = once.R.active

\* C26 happens: devices are listed, one is the active selection, and a
\* device has been removed before (the selection still refers to it or the
\* list holds fewer devices than were constructed)
C26_Witness ==
    /\ Len(dev_list) > 0
    /\ dev_active.ref = "list"
    /\ dev_count > Len(dev_list)
    /\ remove_device(Registry, 0).exc = "ValueError"
    /\ remove_device(remove_device(Registry, 1).R, 0).exc = "ValueError"

\* C27: refresh() while no service is bound, or while the bound service is
\* not ready, sends no request, raises nothing and leaves the device list
\* (the devices' connected flags and configurations included) and the active
\* selection as they are.
C27_RefreshWithoutService ==
    \A reply \in DeviceReplies :
        (dev_service = None \/ ~is_ready(svc[dev_service])) =>
            LET r == refresh(Registry, dev_service, reply)
            IN  /\ r.exc = NoError
                /\ r.obj.sent = <<>>
                /\ r.R = Registry

\* C27 happens: the bound service was closed while a connected device is
\* tracked and selected
C27_Witness ==
    /\ dev_service # None
    /\ ~is_ready(svc[dev_service])
    /\ dev_active.ref = "list"
    /\ \E i \in 1..Len(dev_list) : dev_list[i].connected /\ ~dev_list[i].emulated
    /\ \A reply \in DeviceReplies : refresh(Registry, dev_service, reply).R.list = dev_list

\* C28: exists(serial) raises nothing and returns true exactly when a
\* tracked device, connected or not, real or emulated, has that serial in
\* its calibration.
C28_ExistsBySerial ==
    \A wanted \in Serials \cup {"LKG-1-DUMMY", "LKG-5-DUMMY"} :
        LET r == exists(Registry, wanted)
        IN  /\ r.exc = NoError
            /\ r.obj <=> \E i \in 1..Len(dev_list) : dev_list[i].configuration.serial = wanted

\* C29: the derived calibration values are a function of the calibration
\* record alone: the dict after __calculate_derived is the one the record
\* determines, with (ri, bi) = (2, 0) exactly when flipSubp is true and
\* (0, 2) otherwise, fringe 0.0, and every field other than the derived ones
\* (tilt, pitch, subp, ri, bi, fringe) as the driver gave it.
C29_DerivationIsAFunction ==
    /\ [][calibration # <<>> /\ "tilt" \notin DOMAIN calibration
              /\ "tilt" \in DOMAIN calibration'
          => /\ \A key \in DOMAIN calibration \ {"pitch"} :
                    calibration'[key] = calibration[key]
             /\ DOMAIN calibration' =
                    DOMAIN calibration \cup {"tilt", "subp", "ri", "bi", "fringe"}
             /\ calibration'["tilt"] = <<calibration["screenH"],
                                         calibration["screenW"] * calibration["slope"]>>
             /\ calibration'["pitch"].den = calibration["DPI"]
             /\ calibration'["subp"].num = calibration'["pitch"].num
             /\ calibration'["subp"].den = 3 * calibration["screenW"] * calibration["DPI"]]_vars
    /\ [](calibration # <<>> /\ "tilt" \in DOMAIN calibration
          => /\ (calibration["flipSubp"] # 0
                    <=> calibration["ri"] = 2 /\ calibration["bi"] = 0)
             /\ (calibration["flipSubp"] = 0
                    <=> calibration["ri"] = 0 /\ calibration["bi"] = 2)
             /\ calibration["fringe"] = 0)

\* C29 happens: the derived values of a record with flipSubp set have been
\* written
C29_Witness ==
    /\ calibration # <<>>
    /\ "tilt" \in DOMAIN calibration
    /\ calibration["flipSubp"] = 1
    /\ calibration["ri"] = 2
    /\ calibration["center"] = 42

\* C30: whatever the driver reports in a sequence of refresh() calls, a
\* serial listed twice in one report or gone and back between two reports
\* included, no two tracked devices that are not emulated have the same
\* serial; so no two connected devices have.
C30_SerialsUnique ==
    \A i \in 1..Len(dev_list), j \in 1..Len(dev_list) :
        /\ ~dev_list[i].emulated /\ ~dev_list[j].emulated
              /\ serial(dev_list[i]) = serial(dev_list[j]) => i = j
        /\ dev_list[i].connected /\ dev_list[j].connected
              /\ serial(dev_list[i]) = serial(dev_list[j]) => i = j

\* C30 happens: two devices are tracked, one of them no longer reported,
\* and a report listing the tracked serial twice leaves the list as long
\* as it is
C30_Witness ==
    /\ Len(dev_list) = 2
    /\ dev_service # None /\ is_ready(svc[dev_service])
    /\ dev_list[1].connected /\ ~dev_list[2].connected
    /\ ~dev_list[1].emulated /\ ~dev_list[2].emulated
    /\ LET twice == <<dev_list[1].configuration, dev_list[1].configuration>>
       IN  Len(refresh(Registry, dev_service, DeviceReply(0, "1.2.0", twice)).R.list) = 2

\* C31: a refresh() whose report holds one device with a serial not tracked
\* before appends a device bound to the current service, and that device is
\* the active one afterwards exactly when, as it was created, no device was
\* active or the active one was not connected (refresh() has marked every
\* listed device as disconnected by then); when it is not, and when every
\* reported serial is tracked already, the active selection is as before.
C31_NewDevicePromoted ==
    \A reply \in WellFormedReplies :
        ServiceReady =>
            LET r == refresh(Registry, dev_service, reply)
                n == Len(dev_list)
                promote == \/ dev_active.ref # "removed"
                           \/ ~dev_active.device.connected
            IN  r.exc = NoError /\ ~r.R.over /\ r.obj.ret.kind = "list" =>
                /\ Len(r.obj.ret.devices) = 1 /\ Len(r.R.list) = n + 1 =>
                      /\ r.R.list[n + 1].service = dev_service
                      /\ serial(r.R.list[n + 1]) = r.obj.ret.devices[1].serial
                      /\ promote <=> r.R.active = Listed(n + 1)
                      /\ ~promote => r.R.active = dev_active
                /\ Len(r.R.list) = n => r.R.active = dev_active

\* C32: when several catalog layouts match the size of a loaded image, load()
\* takes rows, columns, view size and view count from the first of them in
\* catalog order.
C32_FirstMatchWins ==
    \A q \in 1..Len(quilts), image \in SmallFiles :
        LET matching == {k \in 1..Len(formats) :
                            /\ image.width \in (formats[k].values.quilt_width - 1)
                                                ..formats[k].values.quilt_width
                            /\ image.height \in (formats[k].values.quilt_height - 1)
                                                 ..formats[k].values.quilt_height}
            r == load(Quilts, q, image)
        IN  matching # {} /\ r.exc = NoError =>
                LET qf == formats[CHOOSE k \in matching : \A j \in matching : k <= j].values
                IN  /\ r.Z.metadata.rows = qf.rows
                    /\ r.Z.metadata.columns = qf.columns
                    /\ r.Z.metadata.view_width = qf.view_width
                    /\ r.Z.metadata.view_height = qf.view_height
                    /\ r.Z.metadata.count = qf.rows * qf.columns

\* C33: when refresh() meets a reported device whose hardware type matches
\* no device type, add_device raises ValueError out of refresh(), nothing is
\* appended for that entry or a later one, and the count the ids come from
\* is as it was before that entry.  (With an emulated device tracked the
\* serial lookup raises before any entry is handled, and nothing is appended.)
C33_UnknownTypeRaises ==
    \A reply \in DeviceReplies :
        ServiceReady /\ reply.kind = "reply" /\ reply.error = 0 =>
            LET r == refresh(Registry, dev_service, reply)
                devices == r.obj.ret.devices
                new == {k \in 1..Len(devices) :
                            \A i \in 1..Len(dev_list) : serial(dev_list[i]) # devices[k].serial}
                unknown == {k \in new : devices[k].hardwareVersion \notin DeviceTypes}
                reached == \A i \in 1..Len(dev_list) : ~dev_list[i].emulated
            IN  (r.obj.ret.kind = "list" /\ unknown # {} /\ ~r.R.over) =>
                    LET first == CHOOSE k \in unknown : \A j \in unknown : k <= j
                        before == IF reached THEN {k \in new : k < first} ELSE {}
                    IN  /\ r.exc = IF reached THEN "ValueError" ELSE "KeyError"
                        /\ Len(r.R.list) = Len(dev_list) + Cardinality(before)
                        /\ r.R.count = dev_count + Cardinality(before)
                        /\ \A i \in 1..Len(r.R.list) :
                              r.R.list[i].type \in DeviceTypes
                              /\ serial(r.R.list[i]) # devices[first].serial

\* C33 happens: a device is tracked and the driver has reported a device of
\* a type this module has no class for, after which the count is the number
\* of devices constructed
C33_Witness ==
    /\ ServiceReady
    /\ Len(dev_list) = 1 /\ dev_count = 1 /\ ~dev_list[1].emulated
    /\ LET r == refresh(Registry, dev_service,
                        DeviceReply(0, "1.2.0", <<ReportedDevice("LKG-X", "ok")>>))
       IN  r.exc = "ValueError" /\ Len(r.R.list) = 1 /\ r.R.count = 1

\* C34: when the active device is connected and the driver's report lists
\* its serial (with state "ok"), it is the active device after refresh() as
\* well, in whatever order the report lists the devices and whether or not
\* the report lists serials that were not tracked.
C34_ActiveStaysActive ==
    \A reply \in WellFormedReplies, i \in 1..Len(dev_list) :
        (/\ ServiceReady
         /\ dev_active = Listed(i)
         /\ dev_list[i].connected /\ ~dev_list[i].emulated
         /\ serial(dev_list[i]) \in OkSerials(reply)) =>
            LET r == refresh(Registry, dev_service, reply)
            IN  r.exc = NoError /\ ~r.R.over => r.R.active = Listed(i)

\* C35: after a refresh() on a ready service that leaves a tracked device
\* connected, the active device, when one is selected, is a tracked device
\* that is connected.
C35_ActiveIsConnected ==
    \A reply \in WellFormedReplies :
        ServiceReady =>
            LET r == refresh(Registry, dev_service, reply)
            IN  (/\ r.exc = NoError /\ ~r.R.over
                 /\ r.R.active # NoneRef
                 /\ \E i \in 1..Len(r.R.list) : r.R.list[i].connected) =>
                    /\ r.R.active.ref = "list"
                    /\ Deref(r.R, r.R.active).connected

\* C36: refresh() on a ready service raises nothing, whatever devices are
\* tracked (emulated ones included) and whatever well-formed report of
\* devices with known hardware types the driver gives.
C36_RefreshNeverRaises ==
    \A reply \in WellFormedReplies :
        ServiceReady => refresh(Registry, dev_service, reply).exc = NoError

\* C37: the configuration of every tracked device holds the calibration
\* 'aspect' entry in every reachable state, so that display() without an
\* aspect finds the device's own value, after a refresh() that updated the
\* device from a new report as well.
C37_AspectKept ==
    \A i \in 1..Len(dev_list) :
        /\ dev_list[i].configuration.aspect
        /\ \A lightfield \in Lightfields, reply \in InfoReplies :
              Device_display(dev_list[i], lightfield, FALSE,
                             Decoded(NoError, "BytesIO"), reply, reply).exc # "KeyError"

\* C38: formats.add(values), after whatever add, set and remove calls, stores
\* the layout under an id that was not in use, leaves every entry the catalog
\* had as it was, and returns the id under which get(id) gives the layout.
C38_AddMakesNewEntry ==
    \A values \in ExtraLayouts :
        LET a == formats_add(formats, values)
        IN  /\ Keys(a.dict) \ Keys(formats) # {}
            /\ \A id \in Keys(formats) :
                  id \in Keys(a.dict) /\ formats_get(a.dict, id) = formats_get(formats, id)
            /\ a.ret \in Keys(a.dict) /\ formats_get(a.dict, a.ret) = values

\* C39: one device.display() on a ready service, of a supported lightfield
\* that decodes, sends exactly one request to the driver, the show request,
\* and no info request with it; ServiceManager.add sends no request beyond
\* those of connecting the new instance, and ServiceManager.remove sends none.
C39_OneRoundTrip ==
    /\ \A i \in 1..Len(dev_list), lightfield \in Lightfields,
          info \in InfoReplies, reply \in InfoReplies :
          LET d == dev_list[i]
          IN  (/\ d.service # None /\ is_ready(svc[d.service])
               /\ TypeOf(lightfield) \in DeviceFormats
               /\ info.kind = "reply" /\ reply.kind = "reply")
              => Device_display(d, lightfield, TRUE, Decoded(NoError, "BytesIO"),
                                info, reply).sent = <<"show">>
    /\ \A t \in ServiceTypes, dial \in DialOutcomes, r1 \in InfoReplies, r2 \in InfoReplies :
          svc_next < MaxServices
              => ServiceManager_add(Services, t, dial, r1, r2).sent
                     = HoloPlayService_init(dial, r1).sent
    /\ \A s \in Constructed, r \in InfoReplies :
          ServiceManager_remove(Services, s, r).sent = <<>>
====
